---- MODULE Spec2Model ----
(***************************************************************************)
(* Model of ContinuousDeliveryManager                                      *)
(* (src/vsts_cd_manager/continuous_delivery_manager.py).                   *)
(*                                                                         *)
(* Strings that the code parses or formats (the repository URL, account    *)
(* names, ids, the derived URLs) are sequences of tokens.  A token is one  *)
(* character, or one of the literals of the code's regular expressions and *)
(* format strings taken as a unit ("://", ".visualstudio.com", "_git",     *)
(* "github.com").  Python's None and '' are both falsy in every test the   *)
(* code makes on these values and are both modelled by the empty sequence; *)
(* the repository URL is the exception: re.match raises on None and finds  *)
(* no match in '', so the URL that was never set is NoUrl.                 *)
(***************************************************************************)
EXTENDS Integers, Sequences, FiniteSets, TLC

\* ------------------------------------------------------------------ bounds

\* Longest URL body (the part after the scheme) drawn for the resolver.
MaxBodyLen == 6
\* Largest number of status fetches one run may issue in the model.
MaxFetches == 4
\* Where the counters of a run that may poll for ever stop counting.
MaxPollCount == 20

\* ------------------------------------------------------------------ tokens

VSCOM == ".visualstudio.com"
GITHUB == "github.com"

\* re.IGNORECASE: "H" is an upper-case scheme letter.
Lower(tok) == IF tok = "H" THEN "h" ELSE tok

\* The character class [htps] of the three patterns.
InSchemeClass(tok) == Lower(tok) = "h"

Max(S) == CHOOSE m \in S : \A n \in S : n <= m

\* Sequences over S of length at most n.
SeqsUpTo(S, n) == UNION {[1..k -> S] : k \in 0..n}

\* urllib quote(), default safe='/': letters, digits and "_.-~/" are kept,
\* every other character becomes %XX.
QuoteTok(tok) ==
    IF tok = " " THEN <<"%20">>
    ELSE IF tok = "://" THEN <<"%3A", "/", "/">>
    ELSE <<tok>>

RECURSIVE quote(_)
quote(s) == IF s = <<>> THEN <<>> ELSE QuoteTok(Head(s)) \o quote(Tail(s))

\* ------------------------------------------------------- regular expressions

\* [htps]+\:\/\/ anchored at the start (re.match): the index of the "://"
\* that ends a non-empty run of scheme letters, 0 when there is none.
SchemeEnd(uri) ==
    LET ks == {k \in 2..Len(uri) :
                  /\ uri[k] = "://"
                  /\ \A i \in 1..(k - 1) : InSchemeClass(uri[i])}
    IN IF ks = {} THEN 0 ELSE Max(ks)

\* [htps]+\:\/\/(.+)\.visualstudio\.com.*\/_git\/(.+)
\* The pairs <<i, j>>: ".visualstudio.com" at i after a non-empty group 1,
\* "/_git/" at j..j+2, and a non-empty group 2 after it.
GitMatches(uri) ==
    LET p == SchemeEnd(uri)
    IN IF p = 0 THEN {}
       ELSE {m \in (1..Len(uri)) \X (1..Len(uri)) :
                /\ m[1] >= p + 2
                /\ Lower(uri[m[1]]) = VSCOM
                /\ m[2] > m[1]
                /\ m[2] + 3 <= Len(uri)
                /\ uri[m[2]] = "/"
                /\ Lower(uri[m[2] + 1]) = "_git"
                /\ uri[m[2] + 2] = "/"}

\* group(1) of the hosted-git pattern; (.+) is greedy, so the last
\* ".visualstudio.com" that still lets the rest match ends it.
GitGroup1(uri) ==
    LET p == SchemeEnd(uri)
        i == Max({m[1] : m \in GitMatches(uri)})
    IN SubSeq(uri, p + 1, i - 1)

\* [htps]+\:\/\/github\.com\/(.+)
GithubMatch(uri) ==
    LET p == SchemeEnd(uri)
    IN /\ p > 0
       /\ Len(uri) >= p + 3
       /\ Lower(uri[p + 1]) = GITHUB
       /\ uri[p + 2] = "/"

GithubGroup1(uri) == SubSeq(uri, SchemeEnd(uri) + 3, Len(uri))

\* [htps]+\:\/\/(.+)\.visualstudio\.com\/(.+)
\* The indices i of a ".visualstudio.com" that a "/" and a non-empty
\* group 2 follow, after a non-empty group 1.
TfvcMatches(uri) ==
    LET p == SchemeEnd(uri)
    IN IF p = 0 THEN {}
       ELSE {i \in 1..Len(uri) :
                /\ i >= p + 2
                /\ Lower(uri[i]) = VSCOM
                /\ i + 2 <= Len(uri)
                /\ uri[i + 1] = "/"}

TfvcGroup1(uri) == SubSeq(uri, SchemeEnd(uri) + 1, Max(TfvcMatches(uri)) - 1)

TfvcGroup2(uri) == SubSeq(uri, Max(TfvcMatches(uri)) + 2, Len(uri))

\* ----------------------------------------------------------------- resolver

\* Mutant: the hosted-TFVC pattern is tried before the hosted-git one.
RepositoryType_TfvcFirst(uri) ==
    IF TfvcMatches(uri) # {} THEN "TFVC"
    ELSE IF GitMatches(uri) # {} THEN "TfsGit"
    ELSE IF GithubMatch(uri) THEN "Github"
    ELSE "ExternalGit"

\* Which pattern decides, in the order the code tries them.
RepositoryType(uri) ==
    IF GitMatches(uri) # {} THEN "TfsGit"
    ELSE IF GithubMatch(uri) THEN "Github"
    ELSE IF TfvcMatches(uri) # {} THEN "TFVC"
    ELSE "ExternalGit"

\* The resolver asks the repository-info provider only on the hosted-git
\* branch.
NeedsVstsInfo(uri) == RepositoryType(uri) = "TfsGit"

\* Mutant: the hosted-TFVC branch does not keep the account name.
GetSourceRepository_TfvcNoAccount(uri, info) ==
    LET type == RepositoryType(uri)
    IN CASE type = "TfsGit" ->
              [type |-> type, identifier |-> info.id, auth_info |-> "None",
               account_name |-> GitGroup1(uri),
               team_project_name |-> info.project]
         [] type = "Github" ->
              [type |-> type, identifier |-> GithubGroup1(uri),
               auth_info |-> "PersonalAccessToken",
               account_name |-> <<>>, team_project_name |-> <<>>]
         [] type = "TFVC" ->
              [type |-> type, identifier |-> TfvcGroup2(uri),
               auth_info |-> "None",
               account_name |-> <<>>, team_project_name |-> <<>>]
         [] OTHER ->
              [type |-> "ExternalGit", identifier |-> uri, auth_info |-> "None",
               account_name |-> <<>>, team_project_name |-> <<>>]

\* _get_source_repository: info is the provider's answer
\* [id, project], used on the hosted-git branch only.
\* Returns the descriptor and the discovered account and project names.
GetSourceRepository(uri, info) ==
    LET type == RepositoryType(uri)
    IN CASE type = "TfsGit" ->
              [type |-> type, identifier |-> info.id, auth_info |-> "None",
               account_name |-> GitGroup1(uri),
               team_project_name |-> info.project]
         [] type = "Github" ->
              [type |-> type, identifier |-> GithubGroup1(uri),
               auth_info |-> "PersonalAccessToken",
               account_name |-> <<>>, team_project_name |-> <<>>]
         [] type = "TFVC" ->
              [type |-> type, identifier |-> TfvcGroup2(uri),
               auth_info |-> "None",
               account_name |-> TfvcGroup1(uri), team_project_name |-> <<>>]
         [] OTHER ->
              [type |-> "ExternalGit", identifier |-> uri, auth_info |-> "None",
               account_name |-> <<>>, team_project_name |-> <<>>]

\* ------------------------------------------------------------ pure helpers

\* Mutant: the test forgets the ExternalGit kind.
VerifyVstsParametersFails_GithubOnly(cd_account, type) ==
    type \in {"Github"} /\ cd_account = <<>>

\* _verify_vsts_parameters: TRUE when the call raises.
VerifyVstsParametersFails(cd_account, type) ==
    type \in {"Github", "ExternalGit"} /\ cd_account = <<>>

\* Mutant: the account of the URL wins over the caller's.
EffectiveAccountName_UrlFirst(cd_account, account_name) ==
    IF account_name # <<>> THEN account_name ELSE cd_account

\* vsts_account_name = vsts_account_name or account_name
EffectiveAccountName(cd_account, account_name) ==
    IF cd_account # <<>> THEN cd_account ELSE account_name

\* 'https://{}.visualstudio.com'.format(quote(vsts_account_name))
AccountUrl(name) == <<"https://">> \o quote(name) \o <<VSCOM>>

\* Mutant: the answer of the existence check is ignored.
AccountMissing_Ignored(exists) == FALSE

\* if not accountClient.account_exists(vsts_account_name): raise
AccountMissing(exists) == ~exists

\* account_created = not creation_results.account_id == None
AccountCreated(account_id) == account_id # "None"

\* Mutant: the NodeJSWithGrunt branch copies the Gulp tool hint.
GetBuildConfiguration_GruntAsGulp(app_type) ==
    CASE app_type = "AspNetWap" ->
           [ok |-> TRUE, platform |-> app_type, tool |-> "None"]
      [] app_type = "AspNetCore" ->
           [ok |-> TRUE, platform |-> app_type, tool |-> "None"]
      [] app_type = "NodeJSWithGulp" ->
           [ok |-> TRUE, platform |-> "NodeJS", tool |-> "Gulp"]
      [] app_type = "NodeJSWithGrunt" ->
           [ok |-> TRUE, platform |-> "NodeJS", tool |-> "Gulp"]
      [] OTHER ->
           [ok |-> FALSE, platform |-> "None", tool |-> "None"]

\* _get_build_configuration: ok is FALSE when the call raises.
GetBuildConfiguration(app_type) ==
    CASE app_type = "AspNetWap" ->
           [ok |-> TRUE, platform |-> app_type, tool |-> "None"]
      [] app_type = "AspNetCore" ->
           [ok |-> TRUE, platform |-> app_type, tool |-> "None"]
      [] app_type = "NodeJSWithGulp" ->
           [ok |-> TRUE, platform |-> "NodeJS", tool |-> "Gulp"]
      [] app_type = "NodeJSWithGrunt" ->
           [ok |-> TRUE, platform |-> "NodeJS", tool |-> "Grunt"]
      [] OTHER ->
           [ok |-> FALSE, platform |-> "None", tool |-> "None"]

\* Mutant: an 'inProgress' answer to the submit starts the wait too.
InitialStatusOk_AnyPending(status) == status \in {"queued", "inProgress"}

\* The test on the submit response: only 'queued' starts the wait.
InitialStatusOk(status) == status = "queued"

\* Mutant: the loop goes on for 'succeeded' too.
IsPending_AlsoSucceeded(status) ==
    status = "queued" \/ status = "inProgress" \/ status = "succeeded"

\* Mutant: the loop goes on for 'queued' only.
IsPending_OnlyQueued(status) == status = "queued"

\* The condition of the while loop of _wait_for_cd_completion.
IsPending(status) == status = "queued" \/ status = "inProgress"

\* Mutant: the test after the loop compares with a status that never comes.
IsFailed_Misspelt(status) == status = "Failed"

\* The test after the loop: only 'failed' raises.
IsFailed(status) == status = "failed"

\* step = 5 and max = 100 of _wait_for_cd_completion.
ProgressStep == 5
ProgressMax == 100

\* Mutant: the step grows without the cap.
NextStep_NoCap(step) == step + ProgressStep

\* step += 5 if step + 5 < max else 0
NextStep(step) ==
    IF step + ProgressStep < ProgressMax THEN step + ProgressStep ELSE step

\* The two URLs of _get_summary; '' is the empty sequence.
BuildUrl(cfg, account_url) ==
    IF cfg.project # <<>> /\ cfg.build_definition # <<>>
    THEN account_url \o <<"/">> \o quote(cfg.project)
         \o <<"/_build?_a=simple-process&definitionId=">>
         \o quote(cfg.build_definition)
    ELSE <<>>

\* Mutant: the release URL is keyed on the build definition.
ReleaseUrl_KeyedOnBuild(cfg, account_url) ==
    IF cfg.project # <<>> /\ cfg.build_definition # <<>>
    THEN account_url \o <<"/">> \o quote(cfg.project)
         \o <<"/_apps/hub/ms.vss-releaseManagement-web.hub-explorer?definitionId=">>
         \o quote(cfg.release_definition) \o <<"&_a=releases">>
    ELSE <<>>

ReleaseUrl(cfg, account_url) ==
    IF cfg.project # <<>> /\ cfg.release_definition # <<>>
    THEN account_url \o <<"/">> \o quote(cfg.project)
         \o <<"/_apps/hub/ms.vss-releaseManagement-web.hub-explorer?definitionId=">>
         \o quote(cfg.release_definition) \o <<"&_a=releases">>
    ELSE <<>>

\* Mutant: the result reports the resource group as the subscription id.
GetSummary_GroupAsSubscription(cfg, account_url, created, azure) ==
    [status |-> "SUCCESS",
     vsts_account_created |-> created,
     vsts_account_url |-> account_url,
     vsts_build_def_url |-> BuildUrl(cfg, account_url),
     vsts_release_def_url |-> ReleaseUrl(cfg, account_url),
     azure_resource_group |-> azure.resource_group_name,
     azure_subscription_id |-> azure.resource_group_name,
     azure_website_name |-> azure.website_name,
     azure_continuous_delivery_url |->
         <<"https://portal.azure.com/#resource/subscriptions/">>
         \o quote(azure.subscription_id) \o <<"/resourceGroups/">>
         \o quote(azure.resource_group_name)
         \o <<"/providers/Microsoft.Web/sites/">>
         \o quote(azure.website_name) \o <<"/vstscd">>,
     status_details |-> cfg]

\* _get_summary and ContinuousDeliveryResult.__init__ (the summary text is
\* left out).
GetSummary(cfg, account_url, created, azure) ==
    [status |-> "SUCCESS",
     vsts_account_created |-> created,
     vsts_account_url |-> account_url,
     vsts_build_def_url |-> BuildUrl(cfg, account_url),
     vsts_release_def_url |-> ReleaseUrl(cfg, account_url),
     azure_resource_group |-> azure.resource_group_name,
     azure_subscription_id |-> azure.subscription_id,
     azure_website_name |-> azure.website_name,
     azure_continuous_delivery_url |->
         <<"https://portal.azure.com/#resource/subscriptions/">>
         \o quote(azure.subscription_id) \o <<"/resourceGroups/">>
         \o quote(azure.resource_group_name)
         \o <<"/providers/Microsoft.Web/sites/">>
         \o quote(azure.website_name) \o <<"/vstscd">>,
     status_details |-> cfg]

\* ------------------------------------------------------------ input domains

\* Repository URLs of the workflow runs: one per kind.
GitUrl == <<"h", "://", "x", VSCOM, "/", "_git", "/", "x">>
GithubUrl == <<"h", "://", GITHUB, "/", "x">>
TfvcUrl == <<"H", "://", "x", VSCOM, "/", "x">>
ExternalUrl == <<"h", "://", "x", "/", "x">>
SampleUrls == {GitUrl, GithubUrl, TfvcUrl, ExternalUrl}

\* Repository URLs of the resolver runs: a scheme part and every body of at
\* most MaxBodyLen tokens.
Schemes == {<<"h", "://">>, <<"H", "h", "://">>, <<"x", "://">>}
BodyTokens == {VSCOM, "/", "_git", GITHUB}
ResolverUrls ==
    {s \o b : s \in Schemes, b \in SeqsUpTo(BodyTokens, MaxBodyLen)}
    \cup {<<>>}
\* self._repo_info.url before set_repository_info: None.
NoUrl == <<"None">>

\* vsts_account_name as the caller passes it (<<>>: None or '').
CallerAccountNames == {<<>>, <<"x">>, <<"y", " ">>}

\* app_type as the caller passes it ("": None or '').
AppTypes ==
    {"AspNetWap", "AspNetCore", "NodeJSWithGulp", "NodeJSWithGrunt", "Java", ""}

NoAzure ==
    [subscription_id |-> <<>>, resource_group_name |-> <<>>,
     website_name |-> <<>>]
AzureInfos ==
    {[subscription_id |-> <<"s1">>, resource_group_name |-> <<"rg">>,
      website_name |-> <<"w", " ">>],
     [subscription_id |-> <<"s2">>, resource_group_name |-> <<"rg">>,
      website_name |-> <<"w2">>]}

\* What the collaborators may answer; ok = FALSE is a call that raises
\* (a transport error, which the code does not catch).
InfoReplies == {[id |-> <<"repo-id">>, project |-> <<"P">>]}
NoInfo == [id |-> <<>>, project |-> <<>>]
InfoOutcomes(uri) ==
    IF NeedsVstsInfo(uri)
    THEN {[ok |-> FALSE, info |-> NoInfo]}
         \cup {[ok |-> TRUE, info |-> i] : i \in InfoReplies}
    ELSE {[ok |-> TRUE, info |-> NoInfo]}
\* create(name): a new name is created and its id returned; for an existing
\* name the service answers with or without an id.
CreateOutcomes(name, accts) ==
    {[ok |-> FALSE, account_id |-> "None", accounts |-> accts]}
    \cup (IF name \in accts
          THEN {[ok |-> TRUE, account_id |-> id, accounts |-> accts] :
                   id \in {"None", "id1"}}
          ELSE {[ok |-> TRUE, account_id |-> "id1",
                 accounts |-> accts \cup {name}]})
ExistsOutcomes(name, accts) ==
    {[ok |-> FALSE, exists |-> FALSE], [ok |-> TRUE, exists |-> name \in accts]}
Statuses == {"queued", "inProgress", "succeeded", "failed", "canceled"}
\* fetch(id): while the work is pending or has failed the service reports a
\* status and a message; once it is over, the project and the definitions
\* it made (any of them may be missing).
Configs ==
    [status : {"queued", "inProgress", "failed"},
     status_message : {"m1", "m2"},
     project : {<<>>}, build_definition : {<<>>}, release_definition : {<<>>}]
    \cup
    [status : Statuses \ {"queued", "inProgress", "failed"},
     status_message : {"m1"},
     project : {<<>>, <<"p", " ">>}, build_definition : {<<>>, <<"b1">>},
     release_definition : {<<>>, <<"r1">>}]
NoConfig ==
    [status |-> "None", status_message |-> "None", project |-> <<>>,
     build_definition |-> <<>>, release_definition |-> <<>>]

\* submit(config): the id of the provisioning configuration and its status.
ResponseIds == {"p1", "p2"}
SubmitOutcomes ==
    {[ok |-> FALSE, id |-> "None", status |-> "None"]}
    \cup {[ok |-> TRUE, id |-> i, status |-> st] :
             i \in ResponseIds, st \in Statuses}
FetchOutcomes ==
    {[ok |-> FALSE, config |-> NoConfig]}
    \cup {[ok |-> TRUE, config |-> c] : c \in Configs}

\* The code raises RuntimeError at every site; kind is the name the error
\* taxonomy gives the site.
NoError == [kind |-> "None", msg |-> <<>>]
NoResult ==
    [status |-> "None", vsts_account_created |-> FALSE,
     vsts_account_url |-> <<>>, vsts_build_def_url |-> <<>>,
     vsts_release_def_url |-> <<>>, azure_resource_group |-> <<>>,
     azure_subscription_id |-> <<>>, azure_website_name |-> <<>>,
     azure_continuous_delivery_url |-> <<>>, status_details |-> NoConfig]
NoSource ==
    [type |-> "None", identifier |-> <<>>, auth_info |-> "None",
     account_name |-> <<>>, team_project_name |-> <<>>]
NoArgs == [app_type |-> "", vsts_account_name |-> <<>>, create_account |-> FALSE]
NoSubmitted ==
    [platform |-> "None", tool |-> "None", account |-> <<>>, azure |-> NoAzure]
NoCalls == [info |-> 0, create |-> 0, exists |-> 0, submit |-> 0, fetch |-> 0]

\* -------------------------------------------------------------------- state

VARIABLES
    azure_info,         \* self._azure_info
    repo_url,           \* self._repo_info.url
    pc,                 \* where the run of setup_continuous_delivery stands
    args,               \* the arguments of the run
    source_repository,  \* what _get_source_repository returned
    vsts_account_name,  \* the account name in use after line 101
    account_created,    \* the local account_created
    submitted,          \* the provisioning request as sent
    response_status,    \* response.ci_configuration.result.status
    config,             \* the configuration of the last fetch
    step,               \* the local step of _wait_for_cd_completion
    progress,           \* the last 'current' given to the progress callback
    error,              \* the exception the run ended with
    result,             \* the ContinuousDeliveryResult the run returned
    calls,              \* remote calls issued by the run, per collaborator
    accounts,           \* the account service: names of existing accounts
    account_existed,    \* the account service: the last create found the name
    pendingSeen,        \* the CD service: queued/inProgress answers to the run
    response_id,        \* response.id
    fetch_id,           \* the CD service: the id the last fetch asked for
    remote_status,      \* the CD service: the status of the configuration
    azure_set_in_run    \* set_azure_web_info was called while the run was on

vars ==
    <<azure_info, repo_url, pc, args, source_repository, vsts_account_name,
      account_created, submitted, response_status, config, step, progress,
      error, result, calls, accounts, account_existed, pendingSeen,
      response_id, fetch_id, remote_status, azure_set_in_run>>

managerVars == <<azure_info, repo_url>>
remoteVars == <<accounts, account_existed, pendingSeen>>
submitVars == <<response_id, fetch_id, remote_status>>

\* The locals of a run that has not started.
RunCleared ==
    /\ args = NoArgs
    /\ source_repository = NoSource
    /\ vsts_account_name = <<>>
    /\ account_created = FALSE
    /\ submitted = NoSubmitted
    /\ response_status = "None"
    /\ config = NoConfig
    /\ step = 0
    /\ progress = -1
    /\ error = NoError
    /\ result = NoResult
    /\ calls = NoCalls

\* __init__: both info objects empty, no run.
Init ==
    /\ azure_info = NoAzure
    /\ repo_url = NoUrl
    /\ pc = "idle"
    /\ RunCleared
    /\ accounts = {}
    /\ account_existed = FALSE
    /\ pendingSeen = 0
    /\ response_id = "None"
    /\ fetch_id = "None"
    /\ remote_status = "None"
    /\ azure_set_in_run = FALSE

\* ------------------------------------------------------------------ actions

Raise(kind, msg) ==
    /\ pc' = "done"
    /\ error' = [kind |-> kind, msg |-> msg]

\* set_azure_web_info
set_azure_web_info(info) ==
    /\ pc = "idle"
    /\ azure_info' = info
    /\ UNCHANGED <<repo_url, pc, args, source_repository, vsts_account_name,
                   account_created, submitted, response_status, config, step,
                   progress, error, result, calls>>
    /\ UNCHANGED remoteVars
    /\ UNCHANGED <<submitVars, azure_set_in_run>>

\* set_repository_info
set_repository_info(url) ==
    /\ pc = "idle"
    /\ repo_url' = url
    /\ UNCHANGED <<azure_info, pc, args, source_repository, vsts_account_name,
                   account_created, submitted, response_status, config, step,
                   progress, error, result, calls>>
    /\ UNCHANGED remoteVars
    /\ UNCHANGED <<submitVars, azure_set_in_run>>

\* setup_continuous_delivery, lines 95-104: resolve the repository (with the
\* provider's lookup on the hosted-git branch), verify the parameters, settle
\* the account name.  Both setters must have been called before.
Setup_Resolve(app_type, cd_account, create_account) ==
    /\ pc = "idle"
    /\ azure_info # NoAzure
    /\ repo_url # NoUrl
    /\ args' = [app_type |-> app_type, vsts_account_name |-> cd_account,
                create_account |-> create_account]
    /\ calls' = [calls EXCEPT
                   !.info = IF NeedsVstsInfo(repo_url) THEN @ + 1 ELSE @]
    /\ \E reply \in InfoOutcomes(repo_url) :
          LET sr == GetSourceRepository(repo_url, reply.info)
          IN IF ~reply.ok
             THEN /\ Raise("TransportError", <<"get_vsts_info">>)
                  /\ UNCHANGED <<source_repository, vsts_account_name>>
             ELSE /\ source_repository' = sr
                  /\ IF VerifyVstsParametersFails(cd_account, sr.type)
                     THEN /\ Raise("ConfigurationError",
                                   <<"You must provide a value for cd-account">>)
                          /\ UNCHANGED vsts_account_name
                     ELSE /\ vsts_account_name' =
                                 EffectiveAccountName(cd_account, sr.account_name)
                          /\ pc' = "account"
                          /\ UNCHANGED error
    /\ UNCHANGED <<account_created, submitted, response_status, config, step,
                   progress, result>>
    /\ UNCHANGED managerVars
    /\ UNCHANGED remoteVars
    /\ UNCHANGED <<submitVars, azure_set_in_run>>

\* Lines 108-120: the create path.
Setup_CreateAccount ==
    /\ pc = "account"
    /\ args.create_account
    /\ calls' = [calls EXCEPT !.create = @ + 1]
    /\ account_existed' = (vsts_account_name \in accounts)
    /\ \E reply \in CreateOutcomes(vsts_account_name, accounts) :
          /\ accounts' = reply.accounts
          /\ IF ~reply.ok
             THEN /\ Raise("TransportError", <<"create_account">>)
                  /\ progress' = 0
                  /\ UNCHANGED account_created
             ELSE /\ account_created' = AccountCreated(reply.account_id)
                  /\ progress' = IF AccountCreated(reply.account_id)
                                 THEN 5 ELSE 0
                  /\ pc' = "submit"
                  /\ UNCHANGED error
    /\ UNCHANGED <<args, source_repository, vsts_account_name, submitted,
                   response_status, config, step, result, pendingSeen>>
    /\ UNCHANGED managerVars
    /\ UNCHANGED <<submitVars, azure_set_in_run>>

\* Lines 121-125: the verify path.
Setup_VerifyAccount ==
    /\ pc = "account"
    /\ ~args.create_account
    /\ calls' = [calls EXCEPT !.exists = @ + 1]
    /\ \E reply \in ExistsOutcomes(vsts_account_name, accounts) :
          IF ~reply.ok
          THEN Raise("TransportError", <<"account_exists">>)
          ELSE IF AccountMissing(reply.exists)
          THEN Raise("ConfigurationError",
                     <<"The Team Services url does not exist: ">>
                     \o AccountUrl(vsts_account_name))
          ELSE /\ pc' = "submit"
               /\ UNCHANGED error
    /\ UNCHANGED <<args, source_repository, vsts_account_name, account_created,
                   submitted, response_status, config, step, progress, result>>
    /\ UNCHANGED managerVars
    /\ UNCHANGED remoteVars
    /\ UNCHANGED <<submitVars, azure_set_in_run>>

\* Lines 127-151: build the request, submit it once, test the answer; on
\* 'queued' enter _wait_for_cd_completion (line 211, the first progress
\* report).
Setup_Submit ==
    /\ pc = "submit"
    /\ LET bc == GetBuildConfiguration(args.app_type)
       IN IF ~bc.ok
          THEN /\ Raise("ConfigurationError",
                        <<"The app_type was not understood">>)
               /\ UNCHANGED <<submitted, response_status, step, progress, calls,
                              response_id, remote_status>>
          ELSE /\ calls' = [calls EXCEPT !.submit = @ + 1]
               /\ submitted' = [platform |-> bc.platform, tool |-> bc.tool,
                                account |-> vsts_account_name,
                                azure |-> azure_info]
               /\ \E reply \in SubmitOutcomes :
                     IF ~reply.ok
                     THEN /\ Raise("TransportError",
                                   <<"provisioning_configuration">>)
                          /\ UNCHANGED <<response_status, step, progress,
                                         response_id, remote_status>>
                     ELSE /\ response_status' = reply.status
                          /\ response_id' = reply.id
                          /\ remote_status' = reply.status
                          /\ IF InitialStatusOk(reply.status)
                             THEN /\ step' = ProgressStep
                                  /\ progress' = ProgressStep
                                  /\ pc' = "poll"
                                  /\ UNCHANGED error
                             ELSE /\ Raise("UnexpectedStateError",
                                           <<"Unknown status returned from provisioning_configuration: ",
                                             reply.status>>)
                                  /\ UNCHANGED <<step, progress>>
    /\ UNCHANGED <<args, source_repository, vsts_account_name, account_created,
                   config, result>>
    /\ UNCHANGED managerVars
    /\ UNCHANGED remoteVars
    /\ UNCHANGED <<fetch_id, azure_set_in_run>>

\* Mutant: the fetch asks for a fixed id, not the one the submit returned.
FetchId_Fixed(id) == "p1"

\* cd.get_provisioning_configuration(response.id): the id the fetch asks for.
FetchId(id) == id

\* _wait_for_cd_completion, lines 212-222, and the return of line 148: one
\* fetch, then either another turn of the loop or the end of the run.
\* outcomes is what the service may answer.  The counters stop at limit: with
\* saturate they stay there and the loop goes on, without it the run is
\* followed no further.
Poll(outcomes, limit, saturate) ==
    /\ pc = "poll"
    /\ saturate \/ calls.fetch < limit
    /\ calls' = [calls EXCEPT !.fetch = IF @ < limit THEN @ + 1 ELSE @]
    /\ fetch_id' = FetchId(response_id)
    /\ \E reply \in outcomes :
          IF ~reply.ok
          THEN /\ Raise("TransportError", <<"get_provisioning_configuration">>)
               /\ UNCHANGED <<config, step, progress, result, pendingSeen,
                              remote_status>>
          ELSE /\ config' = reply.config
               /\ remote_status' = reply.config.status
               /\ pendingSeen' =
                     IF /\ reply.config.status \in {"queued", "inProgress"}
                        /\ pendingSeen < limit
                     THEN pendingSeen + 1 ELSE pendingSeen
               /\ IF IsPending(reply.config.status)
                  THEN /\ step' = NextStep(step)
                       /\ progress' = NextStep(step)
                       /\ UNCHANGED <<pc, error, result>>
                  ELSE IF IsFailed(reply.config.status)
                  THEN /\ progress' = ProgressMax
                       /\ Raise("RemoteProvisioningError",
                                <<reply.config.status_message>>)
                       /\ UNCHANGED <<step, result>>
                  ELSE /\ progress' = ProgressMax
                       /\ result' = GetSummary(reply.config,
                                               AccountUrl(vsts_account_name),
                                               account_created, azure_info)
                       /\ pc' = "done"
                       /\ UNCHANGED <<step, error>>
    /\ UNCHANGED <<args, source_repository, vsts_account_name, account_created,
                   submitted, response_status, accounts, account_existed,
                   response_id, azure_set_in_run>>
    /\ UNCHANGED managerVars

\* The poll of a run whose service may answer anything at each fetch.
Setup_Poll == Poll(FetchOutcomes, MaxFetches, FALSE)

\* The run is over: the caller has the result or the exception, the locals
\* are gone.
Return ==
    /\ pc = "done"
    /\ pc' = "idle"
    /\ args' = NoArgs
    /\ source_repository' = NoSource
    /\ vsts_account_name' = <<>>
    /\ account_created' = FALSE
    /\ submitted' = NoSubmitted
    /\ response_status' = "None"
    /\ config' = NoConfig
    /\ step' = 0
    /\ progress' = -1
    /\ error' = NoError
    /\ result' = NoResult
    /\ calls' = NoCalls
    /\ account_existed' = FALSE
    /\ pendingSeen' = 0
    /\ response_id' = "None"
    /\ fetch_id' = "None"
    /\ remote_status' = "None"
    /\ azure_set_in_run' = FALSE
    /\ UNCHANGED accounts
    /\ UNCHANGED managerVars

Next ==
    \/ \E info \in AzureInfos : set_azure_web_info(info)
    \/ \E url \in SampleUrls : set_repository_info(url)
    \/ \E app_type \in AppTypes, cd_account \in CallerAccountNames,
          create_account \in BOOLEAN :
          Setup_Resolve(app_type, cd_account, create_account)
    \/ Setup_CreateAccount
    \/ Setup_VerifyAccount
    \/ Setup_Submit
    \/ Setup_Poll
    \/ Return

Spec == Init /\ [][Next]_vars

\* The resolver on every URL of ResolverUrls: the manager after both setters,
\* and the first step of a run.
InitResolver ==
    /\ azure_info \in AzureInfos
    /\ azure_info.website_name = <<"w2">>
    /\ repo_url \in ResolverUrls
    /\ pc = "idle"
    /\ RunCleared
    /\ accounts = {}
    /\ account_existed = FALSE
    /\ pendingSeen = 0
    /\ response_id = "None"
    /\ fetch_id = "None"
    /\ remote_status = "None"
    /\ azure_set_in_run = FALSE

NextResolver ==
    \E cd_account \in {<<>>, <<"x">>} :
        Setup_Resolve("AspNetCore", cd_account, FALSE)

SpecResolver == InitResolver /\ [][NextResolver]_vars

\* ---------------------------------------------- a service with its own state

\* fetch(id) of a service that reports the status its configuration has.
RemoteFetchOutcomes(status) ==
    {[ok |-> FALSE, config |-> NoConfig]}
    \cup {[ok |-> TRUE, config |-> c] : c \in {d \in Configs : d.status = status}}

\* The poll of a run against that service; the loop is followed for ever.
Setup_PollRemote == Poll(RemoteFetchOutcomes(remote_status), MaxPollCount, TRUE)

\* The service works on the configuration: queued, then inProgress, then a
\* final status, or any later one directly.
Remote_Advance ==
    /\ pc = "poll"
    /\ remote_status \in {"queued", "inProgress"}
    /\ \E st \in Statuses \ {"queued"} :
          /\ st # remote_status
          /\ remote_status' = st
    /\ UNCHANGED <<args, source_repository, vsts_account_name, account_created,
                   submitted, response_status, config, step, progress, error,
                   result, calls, pc, response_id, fetch_id, azure_set_in_run>>
    /\ UNCHANGED managerVars
    /\ UNCHANGED remoteVars

\* The manager after both setters, a hosted-TFVC repository.
InitPoll ==
    /\ azure_info \in AzureInfos
    /\ azure_info.website_name = <<"w2">>
    /\ repo_url = TfvcUrl
    /\ pc = "idle"
    /\ RunCleared
    /\ accounts = {}
    /\ account_existed = FALSE
    /\ pendingSeen = 0
    /\ response_id = "None"
    /\ fetch_id = "None"
    /\ remote_status = "None"
    /\ azure_set_in_run = FALSE

NextPoll ==
    \/ \E create_account \in BOOLEAN :
          Setup_Resolve("AspNetCore", <<>>, create_account)
    \/ Setup_CreateAccount
    \/ Setup_VerifyAccount
    \/ Setup_Submit
    \/ Setup_PollRemote
    \/ Remote_Advance
    \/ Return

\* The loop sleeps two seconds and fetches again: a run that is polling
\* does fetch.
SpecPoll == InitPoll /\ [][NextPoll]_vars /\ WF_vars(Setup_PollRemote)

\* ------------------------------------- a setter called while a run is waiting

\* set_azure_web_info assigns the fields of the one _AzureInfo object one
\* after the other (lines 55-61: resource group, website name, ...,
\* subscription id): what a run waiting in a remote call finds afterwards is
\* the object with the first k of them written.
AzureWritten(old, new, k) ==
    [resource_group_name |-> IF k >= 1 THEN new.resource_group_name
                             ELSE old.resource_group_name,
     website_name |-> IF k >= 2 THEN new.website_name ELSE old.website_name,
     subscription_id |-> IF k >= 3 THEN new.subscription_id
                         ELSE old.subscription_id]

\* set_azure_web_info from another caller while the run waits for the
\* account service, the submit or a fetch.
set_azure_web_info_in_run(info) ==
    /\ pc \in {"account", "submit", "poll"}
    /\ \E k \in 1..3 : azure_info' = AzureWritten(azure_info, info, k)
    /\ azure_set_in_run' = TRUE
    /\ UNCHANGED <<repo_url, pc, args, source_repository, vsts_account_name,
                   account_created, submitted, response_status, config, step,
                   progress, error, result, calls>>
    /\ UNCHANGED remoteVars
    /\ UNCHANGED submitVars

\* The manager after both setters, a hosted-TFVC repository.
InitRace ==
    /\ azure_info \in AzureInfos
    /\ repo_url = TfvcUrl
    /\ pc = "idle"
    /\ RunCleared
    /\ accounts = {}
    /\ account_existed = FALSE
    /\ pendingSeen = 0
    /\ response_id = "None"
    /\ fetch_id = "None"
    /\ remote_status = "None"
    /\ azure_set_in_run = FALSE

NextRace ==
    \/ \E create_account \in BOOLEAN :
          Setup_Resolve("AspNetCore", <<>>, create_account)
    \/ Setup_CreateAccount
    \/ Setup_VerifyAccount
    \/ Setup_Submit
    \/ Setup_Poll
    \/ \E info \in AzureInfos : set_azure_web_info_in_run(info)
    \/ Return

SpecRace == InitRace /\ [][NextRace]_vars

\* ------------------------------------------------------------------- claims

Pending == {"queued", "inProgress"}
ValidAppTypes ==
    {"AspNetWap", "AspNetCore", "NodeJSWithGulp", "NodeJSWithGrunt"}
Succeeded == pc = "done" /\ result.status = "SUCCESS"

\* C1: while the run is still polling, every status fetched so far was
\* queued or inProgress (no fetch follows a non-pending status); a run that
\* polling ended without a transport error issued exactly one fetch more than
\* the pending statuses it was given; and when the status that ended it is
\* 'succeeded' the run returns a result whose status details are the
\* configuration of that last fetch.
C1_PollFetchCount ==
    /\ pc = "poll" => calls.fetch = pendingSeen
    /\ (pc = "done" /\ calls.fetch > 0 /\ error.kind # "TransportError")
           => calls.fetch = pendingSeen + 1
    /\ (pc = "done" /\ config.status = "succeeded")
           => /\ response_status = "queued"
              /\ calls.submit = 1
              /\ calls.fetch = pendingSeen + 1
              /\ error = NoError
              /\ result.status = "SUCCESS"
              /\ result.status_details = config

\* The scripted sequence [queued, inProgress, inProgress, succeeded]: two
\* pending fetches, then 'succeeded', three fetches in all.
C1_Witness ==
    /\ Succeeded
    /\ response_status = "queued"
    /\ config.status = "succeeded"
    /\ pendingSeen = 2
    /\ calls.fetch = 3
    /\ result.status_details = config

\* C2: as soon as a fetch reports 'failed' the run is over: it ended with
\* RemoteProvisioningError whose message is the status_message of that
\* fetched configuration, it returned no result, and the fetch that reported
\* 'failed' was its last one.
C2_RemoteFailure ==
    config.status = "failed"
        => /\ pc = "done"
           /\ error = [kind |-> "RemoteProvisioningError",
                       msg |-> <<config.status_message>>]
           /\ result = NoResult
           /\ calls.fetch = pendingSeen + 1

\* The sequence [queued, failed] with the message "m2".
C2_Witness ==
    /\ pc = "done"
    /\ response_status = "queued"
    /\ config.status = "failed"
    /\ config.status_message = "m2"
    /\ calls.fetch = 1
    /\ error.msg = <<"m2">>

\* C3: a run whose repository resolved to Github or ExternalGit and whose
\* vsts_account_name is empty has ended with ConfigurationError and has
\* issued no remote call of any kind.
C3_AccountNameRequired ==
    (/\ pc # "idle"
     /\ source_repository.type \in {"Github", "ExternalGit"}
     /\ args.vsts_account_name = <<>>)
        => /\ pc = "done"
           /\ error.kind = "ConfigurationError"
           /\ calls = NoCalls
           /\ result = NoResult

C3_Witness ==
    /\ pc = "done"
    /\ source_repository.type = "ExternalGit"
    /\ args.vsts_account_name = <<>>
    /\ error = [kind |-> "ConfigurationError",
                msg |-> <<"You must provide a value for cd-account">>]
    /\ calls = NoCalls

\* C4 (as claimed): a run on the create path whose create request found the
\* account already there, and that returns a result, reports
\* vsts_account_created = FALSE.
C4_CreateIdempotent ==
    (Succeeded /\ args.create_account /\ account_existed)
        => result.vsts_account_created = FALSE

\* C5: a submit answer other than 'queued' ends the run with
\* UnexpectedStateError carrying that status, with no fetch and no result.
C5_UnexpectedInitialStatus ==
    response_status \notin {"None", "queued"}
        => /\ pc = "done"
           /\ error = [kind |-> "UnexpectedStateError",
                       msg |-> <<"Unknown status returned from provisioning_configuration: ",
                                 response_status>>]
           /\ calls.fetch = 0
           /\ config = NoConfig
           /\ result = NoResult

C5_Witness ==
    /\ pc = "done"
    /\ response_status = "succeeded"
    /\ error.kind = "UnexpectedStateError"
    /\ calls.submit = 1
    /\ calls.fetch = 0

\* C6 (as claimed): a run returns a result only when the last fetched status
\* is 'succeeded', and a run that is over has either a result or an error,
\* never both and never neither.
C6_SuccessOnlyOnSucceeded ==
    /\ Succeeded => config.status = "succeeded"
    /\ pc = "done" => ((result = NoResult) # (error = NoError))

\* C7: the two account paths exclude each other: a run with create_account
\* false issues no create request and one existence check before it goes on;
\* a run with create_account true issues no existence check; and when the
\* check answers that the account is absent the run has ended with
\* ConfigurationError naming the account URL, without submit or fetch.
C7_VerifyPath ==
    /\ calls.exists <= 1
    /\ args.create_account => calls.exists = 0
    /\ ~args.create_account => calls.create = 0
    /\ (pc \in {"submit", "poll"} /\ ~args.create_account) => calls.exists = 1
    /\ (calls.submit > 0 /\ ~args.create_account)
           => (calls.exists = 1 /\ vsts_account_name \in accounts)
    /\ (/\ calls.exists = 1
        /\ vsts_account_name \notin accounts
        /\ error.kind # "TransportError")
           => /\ pc = "done"
              /\ error = [kind |-> "ConfigurationError",
                          msg |-> <<"The Team Services url does not exist: ">>
                                  \o AccountUrl(vsts_account_name)]
              /\ calls.submit = 0
              /\ calls.fetch = 0
              /\ result = NoResult

\* The account "y " is absent: the error names https://y%20.visualstudio.com.
C7_Witness ==
    /\ pc = "done"
    /\ ~args.create_account
    /\ calls.exists = 1
    /\ calls.create = 0
    /\ calls.submit = 0
    /\ error = [kind |-> "ConfigurationError",
                msg |-> <<"The Team Services url does not exist: ",
                          "https://", "y", "%20", VSCOM>>]

\* C8: a submitted request has the platform and tool hint of its app_type
\* (AspNetWap and AspNetCore as they are, no tool; NodeJSWithGulp and
\* NodeJSWithGrunt as NodeJS with Gulp and Grunt); a run with any other
\* app_type never submits, never fetches, returns no result, and ends with
\* ConfigurationError unless a remote call raised first.
C8_AppTypeDispatch ==
    /\ calls.submit > 0 =>
          /\ args.app_type \in ValidAppTypes
          /\ args.app_type \in {"AspNetWap", "AspNetCore"}
                => (submitted.platform = args.app_type
                    /\ submitted.tool = "None")
          /\ args.app_type = "NodeJSWithGulp"
                => (submitted.platform = "NodeJS" /\ submitted.tool = "Gulp")
          /\ args.app_type = "NodeJSWithGrunt"
                => (submitted.platform = "NodeJS" /\ submitted.tool = "Grunt")
    /\ (pc # "idle" /\ args.app_type \notin ValidAppTypes) =>
          /\ pc \in {"account", "submit", "done"}
          /\ calls.submit = 0
          /\ calls.fetch = 0
          /\ result = NoResult
          /\ pc = "done"
                => error.kind \in {"ConfigurationError", "TransportError"}

\* An empty app_type reaches the dispatch after the account step and raises.
C8_Witness ==
    /\ pc = "done"
    /\ args.app_type = ""
    /\ calls.create = 1
    /\ calls.submit = 0
    /\ error = [kind |-> "ConfigurationError",
                msg |-> <<"The app_type was not understood">>]

\* C9: after the resolver ran, the kind is that of the first pattern, in the
\* order hosted-git, Github, hosted-TFVC, that matches the URL; with no match
\* it is ExternalGit and the identifier is the whole URL; and the provider's
\* lookup was made exactly when the hosted-git pattern matches.
C9_ResolverClassification ==
    pc # "idle" =>
        /\ calls.info = (IF GitMatches(repo_url) # {} THEN 1 ELSE 0)
        /\ error.kind # "TransportError" =>
              /\ (calls.info = 1) <=> (source_repository.type = "TfsGit")
              /\ GitMatches(repo_url) # {}
                    => source_repository.type = "TfsGit"
              /\ (GitMatches(repo_url) = {} /\ GithubMatch(repo_url))
                    => source_repository.type = "Github"
              /\ (/\ GitMatches(repo_url) = {}
                  /\ ~GithubMatch(repo_url)
                  /\ TfvcMatches(repo_url) # {})
                    => source_repository.type = "TFVC"
              /\ (/\ GitMatches(repo_url) = {}
                  /\ ~GithubMatch(repo_url)
                  /\ TfvcMatches(repo_url) = {})
                    => /\ source_repository.type = "ExternalGit"
                       /\ source_repository.identifier = repo_url

\* A hosted-git URL that the hosted-TFVC pattern matches too.
C9_Witness ==
    /\ pc = "account"
    /\ GitMatches(repo_url) # {}
    /\ TfvcMatches(repo_url) # {}
    /\ source_repository.type = "TfsGit"
    /\ calls.info = 1

\* C10 (as claimed): in a returned result the release URL is empty when the
\* configuration has no release definition, and the build URL is non-empty
\* when it has a build definition, whatever else it has.
C10_SummaryUrls ==
    Succeeded =>
        /\ config.release_definition = <<>> => result.vsts_release_def_url = <<>>
        /\ config.build_definition # <<>> => result.vsts_build_def_url # <<>>

\* C10 (amended): the release URL is empty when the configuration has no
\* release definition; each URL is non-empty exactly when the configuration
\* has both the CI project and that URL's own definition.
C10_SummaryUrlsAmended ==
    Succeeded =>
        /\ config.release_definition = <<>> => result.vsts_release_def_url = <<>>
        /\ config.build_definition = <<>> => result.vsts_build_def_url = <<>>
        /\ (result.vsts_build_def_url # <<>>)
              <=> (config.project # <<>> /\ config.build_definition # <<>>)
        /\ (result.vsts_release_def_url # <<>>)
              <=> (config.project # <<>> /\ config.release_definition # <<>>)

\* A project and a build definition but no release definition: the build URL
\* is there, with the project id percent-encoded, the release URL is empty.
C10_Witness ==
    /\ Succeeded
    /\ config.project = <<"p", " ">>
    /\ config.build_definition = <<"b1">>
    /\ config.release_definition = <<>>
    /\ result.vsts_release_def_url = <<>>
    /\ result.vsts_build_def_url =
          result.vsts_account_url
          \o <<"/", "p", "%20", "/_build?_a=simple-process&definitionId=", "b1">>

\* What the kind says about the optional outputs of the resolver.
KindDeterminesOutputs ==
    /\ (source_repository.auth_info # "None")
          <=> (source_repository.type = "Github")
    /\ (source_repository.account_name # <<>>)
          <=> (source_repository.type \in {"TfsGit", "TFVC"})
    /\ (source_repository.team_project_name # <<>>)
          <=> (source_repository.type = "TfsGit")

Resolved == pc # "idle" /\ error.kind # "TransportError"

\* C11 (as claimed): in every descriptor the resolver returns, authorization
\* info is present iff the kind is Github, an account name iff it is TfsGit
\* or TFVC, a project name iff it is TfsGit, and the identifier is never
\* empty.
C11_DescriptorInvariant ==
    Resolved => (KindDeterminesOutputs /\ source_repository.identifier # <<>>)

\* C11 (amended): the kind determines the optional outputs as claimed, and
\* the identifier is empty only for the empty URL, which resolves to
\* ExternalGit with the URL itself as identifier.
C11_DescriptorInvariantAmended ==
    Resolved =>
        /\ KindDeterminesOutputs
        /\ repo_url # <<>> => source_repository.identifier # <<>>
        /\ repo_url = <<>> =>
              /\ source_repository.type = "ExternalGit"
              /\ source_repository.identifier = <<>>

\* A hosted-TFVC URL: account name and identifier from the URL, no project
\* name, no authorization info.
C11_Witness ==
    /\ pc = "account"
    /\ source_repository.type = "TFVC"
    /\ source_repository.account_name # <<>>
    /\ source_repository.identifier # <<>>
    /\ source_repository.team_project_name = <<>>
    /\ source_repository.auth_info = "None"

\* C12: within a run the value given to the progress callback never
\* decreases and never exceeds 100; while the run polls, and while the
\* service is still at queued or inProgress, it is the step, at most 95;
\* 100 is reported only after a fetch returned a status that is not pending.
C12_Progress ==
    /\ [](/\ progress <= ProgressMax
          /\ pc = "poll" => (progress = step
                             /\ progress <= ProgressMax - ProgressStep)
          /\ remote_status \in Pending => progress < ProgressMax
          /\ progress = ProgressMax
                => (calls.fetch > 0
                    /\ config.status \notin Pending \cup {"None"}))
    /\ [][pc' # "idle" => progress' >= progress]_vars

\* After 18 pending fetches the step is 95; the 19th leaves it there.
C12_Witness ==
    /\ pc = "poll"
    /\ calls.fetch = 19
    /\ pendingSeen = 19
    /\ step = 95
    /\ progress = 95

\* C13: a polling run leaves the loop only by a fetch made when the service
\* is no longer at queued or inProgress, or by a fetch that raises; and once
\* the service has left queued and inProgress, a polling run ends.
C13_PollTermination ==
    /\ [][(pc = "poll" /\ pc' # "poll")
             => (remote_status \notin Pending
                 \/ error'.kind = "TransportError")]_vars
    /\ ((pc = "poll" /\ remote_status \notin Pending) ~> (pc = "done"))

\* The counters have stopped counting and the run is still polling a service
\* that is still pending.
C13_Witness ==
    /\ pc = "poll"
    /\ remote_status \in Pending
    /\ calls.fetch = MaxPollCount
    /\ pendingSeen = MaxPollCount
    /\ error = NoError
    /\ result = NoResult

\* C14: in a run the account service is called at most once and the
\* provisioning request is submitted at most once, from the step after an
\* account step that ended without error (the create call, or the existence
\* check answering true); a status is fetched only after a submit answered
\* 'queued', with the id of that answer; a run that raised is over, and
\* makes no further remote call.
C14_CallOrdering ==
    /\ [](/\ calls.submit <= 1
          /\ calls.create + calls.exists <= 1
          /\ calls.submit = 1
                => IF args.create_account
                   THEN calls.create = 1
                   ELSE calls.exists = 1 /\ vsts_account_name \in accounts
          /\ calls.fetch > 0
                => (/\ calls.submit = 1
                    /\ response_status = "queued"
                    /\ response_id \in ResponseIds
                    /\ fetch_id = response_id)
          /\ error # NoError => pc = "done")
    /\ [][/\ calls'.submit > calls.submit
             => (pc = "submit" /\ error = NoError
                 /\ calls.create + calls.exists = 1)
          /\ calls'.fetch > calls.fetch
             => (pc = "poll" /\ error = NoError /\ calls.submit = 1)
          /\ error # NoError => (calls' = calls \/ calls' = NoCalls)]_vars

\* A run on the verify path that submitted once, was answered 'queued' with
\* the second id, and has fetched twice with that id.
C14_Witness ==
    /\ pc = "poll"
    /\ calls.exists = 1
    /\ calls.create = 0
    /\ calls.submit = 1
    /\ calls.fetch = 2
    /\ response_id = "p2"
    /\ fetch_id = "p2"

\* C15: a result whose subscription id, resource group or website name is
\* not the one of the submitted request comes from a run during which
\* set_azure_web_info was called; without such a call they are equal.
C15_SetterRace ==
    (result # NoResult /\ ~azure_set_in_run)
        => /\ result.azure_subscription_id = submitted.azure.subscription_id
           /\ result.azure_resource_group = submitted.azure.resource_group_name
           /\ result.azure_website_name = submitted.azure.website_name

\* A run that returned a result for another website and another
\* subscription than the ones it sent.
C15_Witness ==
    /\ Succeeded
    /\ azure_set_in_run
    /\ calls.fetch > 0
    /\ result.azure_website_name # submitted.azure.website_name
    /\ result.azure_subscription_id # submitted.azure.subscription_id
    /\ result.azure_website_name = azure_info.website_name

\* C16: a run that ended with the ConfigurationError of a missing account
\* name or of an unsupported app_type has issued neither a create-account
\* request nor a provisioning submit.
C16_InputsVerifiedFirst ==
    (/\ pc = "done"
     /\ error.kind = "ConfigurationError"
     /\ error.msg \in {<<"You must provide a value for cd-account">>,
                       <<"The app_type was not understood">>})
        => (calls.create = 0 /\ calls.submit = 0)

\* C17: from the account step on, and whenever the account service or the
\* submit has been called, the account name in use is not empty; it is the
\* caller's when the caller gave one, else the one of the URL, which only a
\* TfsGit or TFVC repository gets that far without; the submitted request
\* is for that account.
C17_EffectiveAccountName ==
    /\ (pc \in {"account", "submit", "poll"}
        \/ calls.create + calls.exists + calls.submit > 0)
          => /\ vsts_account_name # <<>>
             /\ args.vsts_account_name # <<>>
                   => vsts_account_name = args.vsts_account_name
             /\ args.vsts_account_name = <<>>
                   => (/\ vsts_account_name = source_repository.account_name
                       /\ source_repository.type \in {"TfsGit", "TFVC"})
    /\ calls.submit > 0 => submitted.account = vsts_account_name

\* The caller names an account, the hosted-git URL another one: the account
\* service was asked about the caller's.
C17_Witness ==
    /\ pc = "submit"
    /\ calls.create + calls.exists = 1
    /\ args.vsts_account_name = <<"y", " ">>
    /\ source_repository.type = "TfsGit"
    /\ source_repository.account_name = <<"x">>
    /\ vsts_account_name = <<"y", " ">>

====
